---- MODULE Spec2Model ----
(***************************************************************************)
(* State-machine model of the Home component of src/app/page.tsx: the      *)
(* submission controller handleSubmit, its four suspension points, the     *)
(* failure classification and the parts of the render that depend on the   *)
(* classified error.  The file holds two copies of the component: the one  *)
(* at lines 32-309 (with failure classification) and the one at lines      *)
(* 342-514 (without); `page` says which one is mounted.                    *)
(***************************************************************************)
EXTENDS Integers, Sequences, FiniteSets, TLC

VARIABLES page, prUrl, loading, result, error, errorType, retryAfter, inv

vars == <<page, prUrl, loading, result, error, errorType, retryAfter, inv>>

state == <<loading, result, error, errorType, retryAfter>>

----------------------------------------------------------------------------
(* Bounds of the model. *)

\* Number of invocations of handleSubmit that can be suspended at once.
MaxInFlight == 2
\* Longest Retry-After header value, in characters.
MaxHeaderLen == 2
\* Longest list of comments in a review.
MaxComments == 2

Slots == 1..MaxInFlight

----------------------------------------------------------------------------
(* JavaScript values, tagged by their type. *)

JNull == [t |-> "null"]
JUndefined == [t |-> "undefined"]
JNaN == [t |-> "NaN"]
JStr(s) == [t |-> "string", v |-> s]
JNum(n) == [t |-> "number", v |-> n]
JObj(o) == [t |-> "object", v |-> o]

\* ToBoolean: the test of `&&`, `||`, `!` and `if`.
Truthy(x) ==
    CASE x.t = "null" -> FALSE
      [] x.t = "undefined" -> FALSE
      [] x.t = "NaN" -> FALSE
      [] x.t = "string" -> x.v /= ""
      [] x.t = "number" -> x.v /= 0
      [] OTHER -> TRUE

\* a || b
Or(a, b) == IF Truthy(a) THEN a ELSE b

\* obj.detail on a value that is neither null nor undefined.
GetDetail(x) ==
    IF x.t = "object" /\ "detail" \in DOMAIN x.v THEN x.v.detail ELSE JUndefined

\* String.prototype.includes
Includes(s, sub) ==
    \E i \in 1..(Len(s) - Len(sub) + 1) : SubSeq(s, i, i + Len(sub) - 1) = sub

Digits == {"0", "1", "2", "3", "4", "5", "6", "7", "8", "9"}

DigitVal(c) ==
    CASE c = "0" -> 0 [] c = "1" -> 1 [] c = "2" -> 2 [] c = "3" -> 3
      [] c = "4" -> 4 [] c = "5" -> 5 [] c = "6" -> 6 [] c = "7" -> 7
      [] c = "8" -> 8 [] c = "9" -> 9

RECURSIVE DigitPrefix(_)
\* The longest prefix of s made of decimal digits.
DigitPrefix(s) ==
    IF s = "" \/ Head(s) \notin Digits THEN ""
    ELSE Head(s) \o DigitPrefix(Tail(s))

RECURSIVE DecimalValue(_, _)
DecimalValue(s, acc) ==
    IF s = "" THEN acc ELSE DecimalValue(Tail(s), 10 * acc + DigitVal(Head(s)))

\* parseInt(s) with no radix: an optional sign, then the leading decimal
\* digits; NaN when there is none.
ParseInt(s) ==
    LET neg == s /= "" /\ Head(s) = "-"
        rest == IF s /= "" /\ Head(s) \in {"-", "+"} THEN Tail(s) ELSE s
        ds == DigitPrefix(rest)
    IN IF ds = "" THEN JNaN
       ELSE JNum(IF neg THEN 0 - DecimalValue(ds, 0) ELSE DecimalValue(ds, 0))

----------------------------------------------------------------------------
(* The environment: what the user can type and what the network and the    *)
(* review server can answer.                                               *)

Urls == {"", "https://github.com/o/r/pull/1", "not a url"}

Statuses == {200, 400, 404, 413, 429, 500, 502, 503, 504}

\* Response.ok
Ok(status) == status >= 200 /\ status <= 299

\* HTTP/2 responses carry no reason phrase.
StatusTexts == {"", "Bad Gateway"}

HeaderChars == {"0", "3", "a"}

RECURSIVE StringsUpTo(_)
StringsUpTo(n) ==
    IF n = 0 THEN {""}
    ELSE LET shorter == StringsUpTo(n - 1)
         IN shorter \cup {s \o c : s \in shorter, c \in HeaderChars}

\* response.headers.get('Retry-After'): null when the header is absent.
RetryAfterHeaders == {JNull} \cup {JStr(s) : s \in StringsUpTo(MaxHeaderLen)}

\* Exceptions are Error objects: their constructor name and message.
Exception(name, message) == [name |-> name, message |-> message]

\* fetch() rejects with a TypeError whose message is the browser's:
\* "Failed to fetch" (Chromium), "Load failed" (WebKit).
TransportErrors ==
    {Exception("TypeError", "Failed to fetch"), Exception("TypeError", "Load failed")}

JsonSyntaxError == Exception("SyntaxError", "Unexpected token < in JSON at position 0")

NullDetailError ==
    Exception("TypeError", "Cannot read properties of null (reading 'detail')")

SeverityKeys == {"high", "medium", "low"}

\* stats.by_severity: counts for some of the keys, zero among them.
SeverityMaps == UNION {[K -> {0, 2}] : K \in SUBSET SeverityKeys}

\* Comments with and without a file and a line; line 0 is the first line of
\* a tool that counts from zero.
ReviewComments ==
    {[agent |-> IF f = JNull THEN "unknown-agent" ELSE "security",
      severity |-> IF l = JNull THEN "low" ELSE "high",
      message |-> "issue " \o f.t \o " " \o (IF l = JNull THEN "-" ELSE ToString(l.v)),
      file |-> f,
      line |-> l] :
         f \in {JNull, JStr("a.py")}, l \in {JNull, JNum(0), JNum(12)}}

RECURSIVE SeqsUpTo(_, _)
SeqsUpTo(S, n) ==
    IF n = 0 THEN {<<>>}
    ELSE LET shorter == SeqsUpTo(S, n - 1)
         IN shorter \cup {Append(q, x) : q \in shorter, x \in S}

ReviewResponseOf(comments, bySeverity, summary) ==
    JObj([status |-> "success",
          review |-> [comments |-> comments,
                      stats |-> [total_comments |-> Len(comments),
                                 by_severity |-> bySeverity],
                      summary |-> summary]])

\* 2xx bodies that are JSON: a ReviewResponse, lines 27-30.
ReviewResponses ==
    {ReviewResponseOf(<<>>, m, "") : m \in SeverityMaps}
    \cup {ReviewResponseOf(cs, [k \in {"high"} |-> 2], "Looks good") :
              cs \in SeqsUpTo(ReviewComments, MaxComments)}

ErrorBodies ==
    {JNull, JObj([detail |-> JStr("")]), JObj([detail |-> JStr("PR not found")]),
     JObj([message |-> JStr("no detail")])}

\* A body on the wire: text that is not JSON, JSON text, or a stream that
\* breaks before its end.
Bodies(status) ==
    {[kind |-> "text"]}
    \cup {[kind |-> "broken", err |-> e] : e \in TransportErrors}
    \cup {[kind |-> "json", v |-> j] :
              j \in IF Ok(status) THEN ReviewResponses ELSE ErrorBodies}

Responses ==
    UNION {[status : {st}, statusText : StatusTexts,
            retryAfterHeader : RetryAfterHeaders, body : Bodies(st)] :
           st \in Statuses}

Pending == [kind |-> "pending"]

\* response.json(): the settled value of the promise.
Json(body) ==
    CASE body.kind = "json" -> [kind |-> "value", v |-> body.v]
      [] body.kind = "text" -> [kind |-> "rejected", err |-> JsonSyntaxError]
      [] body.kind = "broken" -> [kind |-> "rejected", err |-> body.err]

----------------------------------------------------------------------------
(* handleSubmit, lines 41-117, as the state writes of each of its          *)
(* synchronous runs.  A run's set-state calls are applied together: no     *)
(* other handler runs before the run suspends or returns.                  *)

Cur ==
    [loading |-> loading, result |-> result, error |-> error,
     errorType |-> errorType, retryAfter |-> retryAfter]

Apply(st) ==
    /\ loading' = st.loading
    /\ result' = st.result
    /\ error' = st.error
    /\ errorType' = st.errorType
    /\ retryAfter' = st.retryAfter

\* Lines 43-47 without line 46.
StartStateKeepingRetryAfter ==
    [loading |-> TRUE, result |-> JNull, error |-> JNull,
     errorType |-> JNull, retryAfter |-> retryAfter]

\* Lines 43-47 without line 45.
StartStateKeepingErrorType ==
    [loading |-> TRUE, result |-> JNull, error |-> JNull,
     errorType |-> errorType, retryAfter |-> JNull]

\* Lines 43-47.
StartState ==
    [loading |-> TRUE, result |-> JNull, error |-> JNull,
     errorType |-> JNull, retryAfter |-> JNull]

\* Lines 59-64 with an empty catch: errorData stays undefined.
ErrorDataWithoutFallback(response, parsed) ==
    IF parsed.kind = "value" THEN parsed.v ELSE JUndefined

\* Lines 59-64: the parsed error body, or the status text when it does not
\* parse.
ErrorData(response, parsed) ==
    IF parsed.kind = "value" THEN parsed.v
    ELSE JObj([detail |-> JStr(response.statusText)])

\* Lines 67-100 without the case of line 84.
StatusCategoryWithout413(status) ==
    CASE status = 429 -> "rate_limit"
      [] status = 400 -> "validation"
      [] status \in {500, 502, 503, 504} -> "server"
      [] OTHER -> "general"

\* Lines 67-100: the category of each case of the switch.
StatusCategory(status) ==
    CASE status = 429 -> "rate_limit"
      [] status = 400 -> "validation"
      [] status = 413 -> "validation"
      [] status \in {500, 502, 503, 504} -> "server"
      [] OTHER -> "general"

\* Lines 70-73.
RetryAfterOf(header, current) ==
    IF Truthy(header) THEN ParseInt(header.v) ELSE current

\* The right operand of `errorData.detail || ...` in each case.
FallbackMessage(status, statusText) ==
    CASE status = 429 ->
             "Rate limit exceeded. Please wait a moment before trying again."
      [] status = 400 ->
             "Invalid request. Please check the PR URL and try again."
      [] status = 413 -> "PR is too large to review. Please try a smaller PR."
      [] status \in {500, 502, 503, 504} ->
             "Server error. Please try again in a few moments."
      [] OTHER -> "Error " \o ToString(status) \o ": " \o statusText

\* The exception a case of the switch throws: the Error it builds, or the
\* TypeError of reading a property of null.
Thrown(status, statusText, errorData) ==
    IF errorData.t \in {"null", "undefined"} THEN NullDetailError
    ELSE Exception("Error",
                   Or(GetDetail(errorData),
                      JStr(FallbackMessage(status, statusText))).v)

\* Lines 67-102 with lines 70-73 moved in front of the switch.
SwitchReadingHeaderForAnyStatus(response, st) ==
    [st EXCEPT !.errorType = JStr(StatusCategory(response.status)),
               !.retryAfter = RetryAfterOf(response.retryAfterHeader, @)]

\* Lines 67-102, the writes of the switch before it throws.
Switch(response, st) ==
    [st EXCEPT !.errorType = JStr(StatusCategory(response.status)),
               !.retryAfter = IF response.status = 429
                              THEN RetryAfterOf(response.retryAfterHeader, @)
                              ELSE @]

ConnectivityMessage ==
    "Cannot connect to the API server. Please check if the server is running."

\* Line 108.
IsNetworkError(err) == err.name = "TypeError" /\ Includes(err.message, "fetch")

\* Lines 107-113 without the else branch.
CatchWithoutElse(err, st) ==
    IF err.name = "TypeError" /\ Includes(err.message, "fetch")
    THEN [st EXCEPT !.errorType = JStr("network"),
                    !.error = JStr(ConnectivityMessage)]
    ELSE st

\* Lines 107-113.  Every exception the handler can see is an Error.
Catch(err, st) ==
    IF IsNetworkError(err)
    THEN [st EXCEPT !.errorType = JStr("network"),
                    !.error = JStr(ConnectivityMessage)]
    ELSE [st EXCEPT !.error = JStr(err.message)]

\* Lines 114-116 without line 115.
FinallyKeepingLoading(st) == st

\* Lines 114-116.
Finally(st) == [st EXCEPT !.loading = FALSE]

\* Lines 105-106.
Publish(data, st) == [st EXCEPT !.result = data]

\* Lines 58-116, from the settled response.json() to the end of the handler,
\* as writes on the state st.
AfterJsonFrom(response, parsed, st) ==
    IF ~Ok(response.status)
    THEN Finally(Catch(Thrown(response.status, response.statusText,
                              ErrorData(response, parsed)),
                       Switch(response, st)))
    ELSE IF parsed.kind = "rejected"
         THEN Finally(Catch(parsed.err, st))
         ELSE Finally(Publish(parsed.v, st))

\* Lines 58-116 on the state of the render.
AfterJsonState(response, parsed) == AfterJsonFrom(response, parsed, Cur)

----------------------------------------------------------------------------
(* handleSubmit of the second copy, lines 348-375.                         *)

\* Lines 350-352.
LegacyStartState == [Cur EXCEPT !.loading = TRUE, !.error = JNull, !.result = JNull]

\* Lines 370-371.
LegacyCatch(err, st) == [st EXCEPT !.error = JStr(err.message)]

\* Lines 364-365.
LegacyThrown(errorData) ==
    IF errorData.t \in {"null", "undefined"} THEN NullDetailError
    ELSE Exception("Error", Or(GetDetail(errorData), JStr("Failed to review PR")).v)

\* Lines 363-374.
LegacyAfterJsonState(response, parsed) ==
    IF parsed.kind = "rejected" THEN Finally(LegacyCatch(parsed.err, Cur))
    ELSE IF ~Ok(response.status)
         THEN Finally(LegacyCatch(LegacyThrown(parsed.v), Cur))
         ELSE Finally(Publish(parsed.v, Cur))

----------------------------------------------------------------------------
(* The render: what is shown and which controls can be used.               *)

\* Line 152.
ErrorPanelShown == Truthy(error)

\* Lines 184-188.
WaitHintShown ==
    ErrorPanelShown /\ errorType = JStr("rate_limit") /\ Truthy(retryAfter)

\* Lines 189-193.
GenericHintShown ==
    ErrorPanelShown /\ errorType = JStr("rate_limit") /\ ~Truthy(retryAfter)

\* Lines 199-206 without the test of errorType.
TryAgainShownForAnyError == page = 1 /\ ErrorPanelShown

\* Lines 199-206.
TryAgainShown ==
    /\ page = 1
    /\ ErrorPanelShown
    /\ errorType = JStr("server") \/ errorType = JStr("general")

\* Lines 140 and 145 without the disabled attribute.
FormAlwaysEnabled == TRUE

\* Lines 140 and 145: disabled={loading}.
FormEnabled == ~loading

\* Line 212: the result panel.
ResultShown == Truthy(result)

\* Lines 228-231.
TotalTileShown == ResultShown

\* result.review.stats.by_severity[key]: undefined for an absent key.
SeverityCount(key) ==
    LET bySeverity == result.v.review.stats.by_severity
    IN IF key \in DOMAIN bySeverity THEN JNum(bySeverity[key]) ELSE JUndefined

\* x >= 0: the comparison of lines 232, 238 and 244 with >= for >.
IsNotNegative(x) == x.t = "number" /\ x.v >= 0

\* x > 0 of lines 232, 238 and 244: false for undefined.
IsPositive(x) == x.t = "number" /\ x.v > 0

\* Lines 232-249.
SeverityTileShown(key) == ResultShown /\ IsPositive(SeverityCount(key))

\* What React renders for a child value: nothing for null, undefined, a
\* boolean or the empty string; the digits of a number.
RenderChild(x) ==
    CASE x.t = "string" -> x.v
      [] x.t = "number" -> ToString(x.v)
      [] x.t = "NaN" -> "NaN"
      [] OTHER -> ""

\* Line 286: comment.line && ` : Line ${comment.line}`.
LineSuffix(comment) ==
    IF Truthy(comment.line)
    THEN JStr(" : Line " \o ToString(comment.line.v))
    ELSE comment.line

\* Lines 282-288: the location line of a comment.
LocationLine(comment) ==
    IF Truthy(comment.file)
    THEN [shown |-> TRUE,
          text |-> RenderChild(comment.file) \o RenderChild(LineSuffix(comment))]
    ELSE [shown |-> FALSE, text |-> ""]

\* Lines 265-299: one item of the list.
CommentItem(comment, index) ==
    [key |-> index,
     agent |-> comment.agent,
     severity |-> comment.severity,
     location |-> LocationLine(comment),
     message |-> comment.message]

\* Lines 264-300 with the comments taken last to first.
CommentItemsReversed(comments) ==
    [i \in 1..Len(comments) |-> CommentItem(comments[Len(comments) + 1 - i], i - 1)]

\* Lines 264-300: comments.map((comment, index) => ...).
CommentItems(comments) ==
    [i \in 1..Len(comments) |-> CommentItem(comments[i], i - 1)]

\* Lines 258-261.
NoIssuesShown == ResultShown /\ Len(result.v.review.comments) = 0

\* Lines 262-301.
CommentListShown == ResultShown /\ ~(Len(result.v.review.comments) = 0)

\* The items of the list container, when it is rendered.
RenderedItems ==
    IF CommentListShown THEN CommentItems(result.v.review.comments) ELSE <<>>

----------------------------------------------------------------------------
(* Invocations of handleSubmit.                                            *)

Idle == [pc |-> "idle", pr_url |-> "", fetched |-> Pending, parsed |-> Pending]

InFlight(s) == inv[s].pc \in {"awaitFetch", "fetchSettled", "awaitJson", "jsonSettled"}

FreeSlots == {s \in Slots : ~InFlight(s)}

NextSlot == CHOOSE s \in FreeSlots : \A t \in FreeSlots : s <= t

\* Lines 50-56 with the fetch issued once more, from every free slot.
DispatchTwice(s) ==
    inv' = [t \in Slots |->
               IF InFlight(t) THEN inv[t]
               ELSE [pc |-> "awaitFetch", pr_url |-> prUrl,
                     fetched |-> Pending, parsed |-> Pending]]

\* Lines 50-56: the request is dispatched with the pr_url of this render.
Dispatch(s) ==
    inv' = [inv EXCEPT ![s] = [pc |-> "awaitFetch", pr_url |-> prUrl,
                               fetched |-> Pending, parsed |-> Pending]]

Init ==
    /\ page \in {1, 2}
    /\ prUrl = ""
    /\ loading = FALSE
    /\ result = JNull
    /\ error = JNull
    /\ errorType = JNull
    /\ retryAfter = JNull
    /\ inv = [s \in Slots |-> Idle]

\* Line 136 with the input left enabled while loading.
TypeUrlWhileLoading(u) ==
    /\ u /= prUrl
    /\ prUrl' = u
    /\ UNCHANGED <<page, state, inv>>

\* Line 136: onChange of the input, which is disabled while loading.
TypeUrl(u) ==
    /\ FormEnabled
    /\ u /= prUrl
    /\ prUrl' = u
    /\ UNCHANGED <<page, state, inv>>

\* Lines 41-56, entered from the form: the submit button is enabled and the
\* required input is not empty.
SubmitForm ==
    /\ page = 1
    /\ FormEnabled
    /\ prUrl /= ""
    /\ FreeSlots /= {}
    /\ Apply(StartState)
    /\ Dispatch(NextSlot)
    /\ UNCHANGED <<page, prUrl>>

\* Lines 199-206: onClick={handleSubmit}, outside the form.
ClickTryAgain ==
    /\ TryAgainShown
    /\ FreeSlots /= {}
    /\ Apply(StartState)
    /\ Dispatch(NextSlot)
    /\ UNCHANGED <<page, prUrl>>

\* Lines 348-361 of the second copy.
LegacySubmitForm ==
    /\ page = 2
    /\ FormEnabled
    /\ prUrl /= ""
    /\ FreeSlots /= {}
    /\ Apply(LegacyStartState)
    /\ Dispatch(NextSlot)
    /\ UNCHANGED <<page, prUrl>>

\* The promise of fetch() resolves with a response.
FetchResolve(s) ==
    /\ inv[s].pc = "awaitFetch"
    /\ \E r \in Responses :
           inv' = [inv EXCEPT ![s].pc = "fetchSettled",
                              ![s].fetched = [kind |-> "response", response |-> r]]
    /\ UNCHANGED <<page, prUrl, state>>

\* The promise of fetch() rejects: no response was received.
FetchReject(s) ==
    /\ inv[s].pc = "awaitFetch"
    /\ \E e \in TransportErrors :
           inv' = [inv EXCEPT ![s].pc = "fetchSettled",
                              ![s].fetched = [kind |-> "rejected", err |-> e]]
    /\ UNCHANGED <<page, prUrl, state>>

\* Lines 50-61 and 105 after the await of fetch: a rejection goes to the
\* catch, a response has its body read with response.json().
AfterFetch(s) ==
    /\ page = 1
    /\ inv[s].pc = "fetchSettled"
    /\ IF inv[s].fetched.kind = "rejected"
       THEN /\ Apply(Finally(Catch(inv[s].fetched.err, Cur)))
            /\ inv' = [inv EXCEPT ![s].pc = "done"]
       ELSE /\ inv' = [inv EXCEPT ![s].pc = "awaitJson"]
            /\ UNCHANGED state
    /\ UNCHANGED <<page, prUrl>>

\* Lines 355-368 of the second copy.
LegacyAfterFetch(s) ==
    /\ page = 2
    /\ inv[s].pc = "fetchSettled"
    /\ IF inv[s].fetched.kind = "rejected"
       THEN /\ Apply(Finally(LegacyCatch(inv[s].fetched.err, Cur)))
            /\ inv' = [inv EXCEPT ![s].pc = "done"]
       ELSE /\ inv' = [inv EXCEPT ![s].pc = "awaitJson"]
            /\ UNCHANGED state
    /\ UNCHANGED <<page, prUrl>>

\* The promise of response.json() settles.
JsonSettle(s) ==
    /\ inv[s].pc = "awaitJson"
    /\ inv' = [inv EXCEPT ![s].pc = "jsonSettled",
                          ![s].parsed = Json(inv[s].fetched.response.body)]
    /\ UNCHANGED <<page, prUrl, state>>

\* Lines 58-116 after the await of response.json().
AfterJson(s) ==
    /\ page = 1
    /\ inv[s].pc = "jsonSettled"
    /\ Apply(AfterJsonState(inv[s].fetched.response, inv[s].parsed))
    /\ inv' = [inv EXCEPT ![s].pc = "done"]
    /\ UNCHANGED <<page, prUrl>>

\* Lines 363-374 of the second copy.
LegacyAfterJson(s) ==
    /\ page = 2
    /\ inv[s].pc = "jsonSettled"
    /\ Apply(LegacyAfterJsonState(inv[s].fetched.response, inv[s].parsed))
    /\ inv' = [inv EXCEPT ![s].pc = "done"]
    /\ UNCHANGED <<page, prUrl>>

Next ==
    \/ \E u \in Urls : TypeUrl(u)
    \/ SubmitForm
    \/ ClickTryAgain
    \/ LegacySubmitForm
    \/ \E s \in Slots : FetchResolve(s)
    \/ \E s \in Slots : FetchReject(s)
    \/ \E s \in Slots : AfterFetch(s)
    \/ \E s \in Slots : LegacyAfterFetch(s)
    \/ \E s \in Slots : JsonSettle(s)
    \/ \E s \in Slots : AfterJson(s)
    \/ \E s \in Slots : LegacyAfterJson(s)

Spec == Init /\ [][Next]_vars

\* The event loop runs every continuation whose promise has settled, and a
\* body that has started to arrive ends or breaks.
LiveSpec ==
    /\ Spec
    /\ \A s \in Slots :
           /\ WF_vars(AfterFetch(s))
           /\ WF_vars(LegacyAfterFetch(s))
           /\ WF_vars(JsonSettle(s))
           /\ WF_vars(AfterJson(s))
           /\ WF_vars(LegacyAfterJson(s))

----------------------------------------------------------------------------
(* Overlapping invocations.  Nothing in handleSubmit refuses an entry      *)
(* while another invocation is suspended: only the render does.  A caller  *)
(* that does not go through the rendered controls can enter it at any      *)
(* time.  The answers are a sample of Responses that keeps one of each     *)
(* exit path.                                                              *)

RaceResponses ==
    {r \in Responses :
        /\ r.statusText = ""
        /\ \/ r.status = 200 /\ r.retryAfterHeader = JNull
                             /\ r.body \in {[kind |-> "text"],
                                            [kind |-> "json",
                                             v |-> ReviewResponseOf(
                                                       <<>>, [k \in {} |-> 0], "")]}
           \/ r.status = 500 /\ r.retryAfterHeader = JNull
                             /\ r.body \in {[kind |-> "text"],
                                            [kind |-> "json",
                                             v |-> JObj([detail |-> JStr("PR not found")])]}
           \/ r.status = 429 /\ r.retryAfterHeader = JStr("3")
                             /\ r.body = [kind |-> "text"]}

InitRace == Init /\ page = 1

\* Lines 41-56, entered while an earlier invocation is suspended.
Resubmit ==
    /\ page = 1
    /\ \E s \in Slots : InFlight(s)
    /\ FreeSlots /= {}
    /\ Apply(StartState)
    /\ Dispatch(NextSlot)
    /\ UNCHANGED <<page, prUrl>>

RaceFetchResolve(s) ==
    /\ inv[s].pc = "awaitFetch"
    /\ \E r \in RaceResponses :
           inv' = [inv EXCEPT ![s].pc = "fetchSettled",
                              ![s].fetched = [kind |-> "response", response |-> r]]
    /\ UNCHANGED <<page, prUrl, state>>

NextRace ==
    \/ \E u \in Urls : TypeUrl(u)
    \/ SubmitForm
    \/ ClickTryAgain
    \/ Resubmit
    \/ \E s \in Slots : RaceFetchResolve(s)
    \/ \E s \in Slots : FetchReject(s)
    \/ \E s \in Slots : AfterFetch(s)
    \/ \E s \in Slots : JsonSettle(s)
    \/ \E s \in Slots : AfterJson(s)

SpecRace == InitRace /\ [][NextRace]_vars

----------------------------------------------------------------------------
(* Vocabulary of the properties.                                           *)

Categories == {"rate_limit", "validation", "server", "network", "general"}

Quiescent == \A s \in Slots : ~InFlight(s)

\* Slot s holds the submission cycle that completed last, and no other is
\* in flight.
CompletedCycle(s) == inv[s].pc = "done" /\ Quiescent

GotResponse(s) == inv[s].fetched.kind = "response"

ResponseOf(s) == inv[s].fetched.response

Succeeded(s) ==
    /\ GotResponse(s)
    /\ Ok(ResponseOf(s).status)
    /\ inv[s].parsed.kind = "value"

IsIntegerString(s) == s /= "" /\ DigitPrefix(s) = s

----------------------------------------------------------------------------
(* C1: after a completed submission cycle with nothing else in flight,     *)
(* exactly one of result and error is non-null: a success leaves result    *)
(* set and error null, every failure leaves error set and result null.     *)
ExactlyOneOfResultAndError ==
    \A s \in Slots :
        CompletedCycle(s) =>
            /\ (result /= JNull) /= (error /= JNull)
            /\ Succeeded(s) => (result /= JNull /\ error = JNull)
            /\ ~Succeeded(s) => (error /= JNull /\ result = JNull)

\* A 2xx response whose body is not JSON has completed as a failure.
UnparsableSuccessCompleted ==
    \E s \in Slots :
        /\ CompletedCycle(s)
        /\ GotResponse(s)
        /\ Ok(ResponseOf(s).status)
        /\ inv[s].parsed.kind = "rejected"
        /\ error /= JNull
        /\ result = JNull

(* C2: while the single submission is in flight, loading is true and       *)
(* result, error, errorType and retryAfter are all null, whatever the      *)
(* cycle before it left behind.                                            *)
ClearedWhileInFlight ==
    \A s \in Slots :
        InFlight(s) =>
            /\ loading = TRUE
            /\ result = JNull
            /\ error = JNull
            /\ errorType = JNull
            /\ retryAfter = JNull

\* A retry is in flight.  The retry control is only offered after a cycle
\* that left error and errorType set, and only it dispatches an empty input.
RetryInFlightAfterFailure ==
    \E s \in Slots :
        /\ inv[s].pc = "awaitFetch"
        /\ inv[s].pr_url = ""
        /\ loading = TRUE
        /\ error = JNull
        /\ errorType = JNull

(* C3: every invocation whose fetch has settled, resolved or rejected,     *)
(* eventually completes with loading false, on every exit path.            *)
SettledFetchReleasesLoading ==
    \A s \in Slots :
        (inv[s].pc = "fetchSettled") ~> (inv[s].pc = "done" /\ loading = FALSE)

\* A non-2xx response whose body is not JSON has completed and released the
\* in-flight flag.
ReleasedAfterUnparsableErrorBody ==
    \E s \in Slots :
        /\ CompletedCycle(s)
        /\ GotResponse(s)
        /\ ~Ok(ResponseOf(s).status)
        /\ inv[s].parsed.kind = "rejected"
        /\ loading = FALSE

(* C4: whenever a completed submission leaves error non-null, errorType    *)
(* is one of the five categories and never null.                           *)
ErrorAlwaysClassified ==
    \A s \in Slots :
        (page = 1 /\ CompletedCycle(s) /\ error /= JNull) =>
            errorType \in {JStr(c) : c \in Categories}

(* C5: for every non-2xx response the errorType of the completed cycle is  *)
(* given by the status alone: 429 rate_limit; 400 and 413 validation; 500, *)
(* 502, 503 and 504 server; any other status general.                      *)
CategoryIsFunctionOfStatus ==
    \A s \in Slots :
        (page = 1 /\ CompletedCycle(s) /\ GotResponse(s)
                  /\ ~Ok(ResponseOf(s).status)) =>
            LET status == ResponseOf(s).status
            IN /\ status = 429 => errorType = JStr("rate_limit")
               /\ status \in {400, 413} => errorType = JStr("validation")
               /\ status \in {500, 502, 503, 504} => errorType = JStr("server")
               /\ status \notin {429, 400, 413, 500, 502, 503, 504} =>
                      errorType = JStr("general")

\* A 413 whose body is the JSON value null, answered with a Retry-After
\* header, has completed.
PayloadTooLargeWithNullBodyCompleted ==
    \E s \in Slots :
        /\ page = 1
        /\ CompletedCycle(s)
        /\ GotResponse(s)
        /\ ResponseOf(s).status = 413
        /\ ResponseOf(s).body = [kind |-> "json", v |-> JNull]
        /\ ResponseOf(s).retryAfterHeader /= JNull
        /\ errorType = JStr("validation")

(* C6: whenever fetch rejects, so that no response was received, the       *)
(* completed cycle has errorType network and error equal to the fixed      *)
(* connectivity message.                                                   *)
RejectedFetchIsNetwork ==
    \A s \in Slots :
        (page = 1 /\ CompletedCycle(s) /\ inv[s].fetched.kind = "rejected") =>
            /\ errorType = JStr("network")
            /\ error = JStr(ConnectivityMessage)

(* C7: on every failure path the text stored in error is the server's      *)
(* detail, a fixed client-authored message or a message derived from the   *)
(* status and status text; it is never the message of a transport or JSON  *)
(* parsing exception.                                                      *)
ErrorTextIsNeverRawException ==
    \A s \in Slots :
        (page = 1 /\ CompletedCycle(s) /\ error /= JNull) =>
            /\ error.v \notin {e.message : e \in TransportErrors \cup {JsonSyntaxError}}
            /\ \/ error.v = ConnectivityMessage
               \/ /\ GotResponse(s)
                  /\ LET r == ResponseOf(s)
                     IN \/ /\ r.body.kind = "json"
                           /\ error = GetDetail(r.body.v)
                        \/ error.v = r.statusText
                        \/ error.v \in
                               {"Rate limit exceeded. Please wait a moment before trying again.",
                                "Invalid request. Please check the PR URL and try again.",
                                "PR is too large to review. Please try a smaller PR.",
                                "Server error. Please try again in a few moments."}
                        \/ error.v = "Error " \o ToString(r.status) \o ": " \o r.statusText

(* C8: for a 429 response exactly one rate-limit hint is shown: with a     *)
(* Retry-After header of integer value N the wait-time hint, with          *)
(* retryAfter = N; without the header the generic hint, with retryAfter    *)
(* null; for every integer N, 0 included.                                  *)
RateLimitHintFollowsHeader ==
    \A s \in Slots :
        (page = 1 /\ CompletedCycle(s) /\ GotResponse(s)
                  /\ ResponseOf(s).status = 429) =>
            LET header == ResponseOf(s).retryAfterHeader
            IN /\ WaitHintShown /= GenericHintShown
               /\ (header /= JNull /\ IsIntegerString(header.v)) =>
                      /\ WaitHintShown
                      /\ ~GenericHintShown
                      /\ retryAfter = JNum(DecimalValue(header.v, 0))
               /\ header = JNull =>
                      /\ GenericHintShown
                      /\ ~WaitHintShown
                      /\ retryAfter = JNull

(* C9, as claimed: when a non-2xx response has a body that is not JSON,    *)
(* the cycle completes with the category of the status and with error      *)
(* equal to a message derived from the status text, for every status and   *)
(* every status text, the empty one included.                              *)
UnparsableErrorBodyShowsStatusText ==
    \A s \in Slots :
        (page = 1 /\ CompletedCycle(s) /\ GotResponse(s)
                  /\ ~Ok(ResponseOf(s).status)
                  /\ inv[s].parsed.kind = "rejected") =>
            LET r == ResponseOf(s)
            IN /\ errorType \in {JStr(c) : c \in Categories \ {"network"}}
               /\ r.status = 500 => errorType = JStr("server")
               /\ \/ error = JStr(r.statusText)
                  \/ error = JStr("Error " \o ToString(r.status) \o ": " \o r.statusText)

(* C9, amended: when a non-2xx response has a body that is not JSON, the   *)
(* cycle completes with the category of the status; error is the status    *)
(* text when that is not empty, and otherwise the fixed message of the     *)
(* status's case, which for a status outside the table is "Error N: ".     *)
UnparsableErrorBodyFallsBack ==
    \A s \in Slots :
        (page = 1 /\ CompletedCycle(s) /\ GotResponse(s)
                  /\ ~Ok(ResponseOf(s).status)
                  /\ inv[s].parsed.kind = "rejected") =>
            LET r == ResponseOf(s)
            IN /\ errorType \in {JStr(c) : c \in Categories \ {"network"}}
               /\ r.status = 500 => errorType = JStr("server")
               /\ r.statusText /= "" => error = JStr(r.statusText)
               /\ r.statusText = "" =>
                      error = JStr(
                          CASE r.status = 429 ->
                                   "Rate limit exceeded. Please wait a moment before trying again."
                            [] r.status = 400 ->
                                   "Invalid request. Please check the PR URL and try again."
                            [] r.status = 413 ->
                                   "PR is too large to review. Please try a smaller PR."
                            [] r.status \in {500, 502, 503, 504} ->
                                   "Server error. Please try again in a few moments."
                            [] OTHER -> "Error " \o ToString(r.status) \o ": ")

\* A 500 with no reason phrase and a body that is not JSON has completed
\* with the fixed server message.
ServerErrorWithoutReasonPhraseCompleted ==
    \E s \in Slots :
        /\ page = 1
        /\ CompletedCycle(s)
        /\ GotResponse(s)
        /\ ResponseOf(s).status = 500
        /\ ResponseOf(s).statusText = ""
        /\ ResponseOf(s).body = [kind |-> "text"]
        /\ errorType = JStr("server")
        /\ error = JStr("Server error. Please try again in a few moments.")

(* C10: every request dispatched by handleSubmit, from the form or from    *)
(* the Try Again control, carries a pr_url that is a non-empty string.     *)
DispatchedUrlIsNonEmpty ==
    \A s \in Slots : InFlight(s) => inv[s].pr_url /= ""

(* C11: with submissions triggered only through the rendered controls, at  *)
(* most one request is outstanding in every reachable state: handleSubmit  *)
(* is never entered while an earlier invocation has not completed.         *)
AtMostOneOutstanding ==
    /\ Cardinality({s \in Slots : InFlight(s)}) <= 1
    /\ (\E s \in Slots : InFlight(s)) => (~FormEnabled /\ ~TryAgainShown)

\* A request is outstanding, its response received and its body being read,
\* and neither control can start another.
ControlsClosedWhileReadingBody ==
    \E s \in Slots :
        /\ inv[s].pc = "awaitJson"
        /\ \A t \in Slots \ {s} : ~InFlight(t)
        /\ ~FormEnabled
        /\ ~TryAgainShown

\* The state of a submission in flight that shows nothing of any cycle.
NothingShown ==
    [loading |-> TRUE, result |-> JNull, error |-> JNull,
     errorType |-> JNull, retryAfter |-> JNull]

\* What the invocation of slot s writes on such a state when no other
\* invocation writes in between.
AloneState(s) ==
    IF inv[s].fetched.kind = "rejected"
    THEN Finally(Catch(inv[s].fetched.err, NothingShown))
    ELSE AfterJsonFrom(ResponseOf(s), Json(ResponseOf(s).body), NothingShown)

\* The step completes the invocation of slot s.
Completes(s) == InFlight(s) /\ inv'[s].pc = "done"

(* C12: when invocations of handleSubmit overlap, then once all have       *)
(* completed, result, error, errorType and retryAfter are exactly what the *)
(* last response to resolve would have produced on its own.                *)
LastCompletionOverwritesAll ==
    [][\A s \in Slots :
           (/\ Completes(s)
            /\ Quiescent'
            /\ \E t \in Slots \ {s} : inv[t].pc = "done")
           => Cur' = AloneState(s)]_vars

\* The step enters handleSubmit in slot s.
Starts(s) == ~InFlight(s) /\ InFlight(s)'

(* C13: the retry control is offered exactly when an error is displayed    *)
(* and its category is server or general, never for rate_limit,            *)
(* validation, network or an error without category; activating it runs    *)
(* the submission of the form: one request, whose pr_url is the current    *)
(* value of the input.                                                     *)
RetryOfferedForServerAndGeneralOnly ==
    /\ [](page = 1 =>
            /\ TryAgainShown <=>
                   /\ error /= JNull
                   /\ error /= JStr("")
                   /\ errorType \in {JStr("server"), JStr("general")}
            /\ \A s \in Slots :
                   CompletedCycle(s) =>
                       (TryAgainShown <=>
                            /\ GotResponse(s)
                            /\ ~Ok(ResponseOf(s).status)
                            /\ ResponseOf(s).status \notin {429, 400, 413}))
    /\ [][(TryAgainShown /\ \E s \in Slots : Starts(s)) =>
              \E s \in Slots :
                  /\ Starts(s)
                  /\ \A t \in Slots \ {s} : inv'[t] = inv[t]
                  /\ inv'[s].pc = "awaitFetch"
                  /\ inv'[s].pr_url = prUrl
                  /\ prUrl' = prUrl
                  /\ Cur' = StartState]_vars

\* The retry control is offered after a 404, and the input no longer holds
\* the value that was submitted.
RetryOfferedAfterNotFound ==
    \E s \in Slots :
        /\ CompletedCycle(s)
        /\ GotResponse(s)
        /\ ResponseOf(s).status = 404
        /\ errorType = JStr("general")
        /\ TryAgainShown
        /\ prUrl /= inv[s].pr_url

(* C14: requests are dispatched only in response to an explicit user       *)
(* action: every step that dispatches starts exactly one request, from a   *)
(* state in which the submit control or the retry control can be used, and *)
(* no step that completes a request, with success or any failure,          *)
(* dispatches another.                                                     *)
OneRequestPerUserTrigger ==
    [][/\ (\E s \in Slots : Starts(s)) =>
              /\ Cardinality({s \in Slots : Starts(s)}) = 1
              /\ (FormEnabled /\ prUrl /= "") \/ TryAgainShown
              /\ \A t \in Slots : ~Completes(t)
       /\ (\E s \in Slots : Completes(s)) =>
              /\ \A t \in Slots : ~Starts(t)
              /\ Quiescent']_vars

\* A cycle has ended in a server error and no request is outstanding.
NoRequestAfterServerError ==
    \E s \in Slots :
        /\ CompletedCycle(s)
        /\ GotResponse(s)
        /\ ResponseOf(s).status = 503
        /\ errorType = JStr("server")
        /\ loading = FALSE

(* C15: for a displayed result the Total Issues tile is always shown, and  *)
(* each of the High, Medium and Low tiles is shown if and only if its key  *)
(* is present in stats.by_severity with a count greater than 0; an absent  *)
(* key counts as zero, so by_severity = {} shows the Total Issues tile     *)
(* alone.                                                                  *)
SeverityTilesShownIffPositive ==
    result /= JNull =>
        LET bySeverity == result.v.review.stats.by_severity
        IN /\ TotalTileShown
           /\ \A k \in {"high", "medium", "low"} :
                  SeverityTileShown(k) <=> (k \in DOMAIN bySeverity /\ bySeverity[k] > 0)
           /\ DOMAIN bySeverity = {} =>
                  \A k \in {"high", "medium", "low"} : ~SeverityTileShown(k)

\* A result is displayed whose by_severity has a zero count, a positive
\* count and an absent key.
MixedSeverityCountsShown ==
    /\ result /= JNull
    /\ LET bySeverity == result.v.review.stats.by_severity
       IN /\ DOMAIN bySeverity = {"high", "low"}
          /\ bySeverity["high"] = 0
          /\ bySeverity["low"] = 2
    /\ TotalTileShown
    /\ SeverityTileShown("low")
    /\ ~SeverityTileShown("high")
    /\ ~SeverityTileShown("medium")

(* C16: for every comment the location line is given by (file, line):      *)
(* both absent, no location line; file present and line absent, the file   *)
(* alone; file present and line = N, "file : Line N", for every integer N, *)
(* 0 included.                                                             *)
LocationLineFollowsFileAndLine ==
    result /= JNull =>
        LET comments == result.v.review.comments
        IN \A i \in 1..Len(comments) :
               LET c == comments[i]
                   location == RenderedItems[i].location
               IN /\ (c.file = JNull /\ c.line = JNull) => ~location.shown
                  /\ (c.file /= JNull /\ c.line = JNull) =>
                         (location.shown /\ location.text = c.file.v)
                  /\ (c.file /= JNull /\ c.line /= JNull) =>
                         /\ location.shown
                         /\ location.text = c.file.v \o " : Line " \o ToString(c.line.v)

(* C17: for a displayed result the rendered items are the server's         *)
(* comments, in the same order and number; when the list is empty the      *)
(* single "no issues" state is rendered and no list container is.          *)
ItemsAreCommentsInOrder ==
    result /= JNull =>
        LET comments == result.v.review.comments
        IN /\ Len(RenderedItems) = Len(comments)
           /\ \A i \in 1..Len(comments) :
                  /\ RenderedItems[i].message = comments[i].message
                  /\ RenderedItems[i].agent = comments[i].agent
                  /\ RenderedItems[i].severity = comments[i].severity
                  /\ RenderedItems[i].key = i - 1
           /\ NoIssuesShown /= CommentListShown
           /\ NoIssuesShown <=> comments = <<>>

\* A result with two different comments is displayed as a list.
TwoDifferentCommentsShown ==
    /\ result /= JNull
    /\ Len(result.v.review.comments) = 2
    /\ result.v.review.comments[1] /= result.v.review.comments[2]
    /\ CommentListShown
    /\ ~NoIssuesShown
    /\ RenderedItems[1].message = result.v.review.comments[1].message

(* C18: result is only ever null or one complete response, written in one  *)
(* step; after a successful cycle it is the whole parsed payload of that   *)
(* cycle's response; and after any completed cycle result, error,          *)
(* errorType and retryAfter are what that cycle alone produces: nothing of *)
(* an earlier cycle survives.                                              *)
ResultIsWholePayloadOfItsCycle ==
    /\ [](/\ result \in {JNull} \cup ReviewResponses
          /\ \A s \in Slots :
                 CompletedCycle(s) =>
                     /\ Succeeded(s) => result = ResponseOf(s).body.v
                     /\ ~Succeeded(s) => result = JNull
                     /\ page = 1 => Cur = AloneState(s))
    /\ [][result' /= result =>
              \/ result' = JNull
              \/ /\ result = JNull
                 /\ \E s \in Slots :
                        /\ Completes(s)
                        /\ result' = ResponseOf(s).body.v]_vars

\* A retry has completed with success: the cycle before it left error and
\* errorType set, and neither is left.
SuccessAfterFailedCycle ==
    \E s \in Slots :
        /\ page = 1
        /\ CompletedCycle(s)
        /\ Succeeded(s)
        /\ inv[s].pr_url = ""
        /\ result = ResponseOf(s).body.v
        /\ error = JNull
        /\ errorType = JNull
        /\ retryAfter = JNull

(* C19: with single-flight submissions, in every reachable state           *)
(* retryAfter is non-null only if errorType is rate_limit; a wait time     *)
(* from a 429 cycle is not carried into a later cycle that ends in success *)
(* or in another category.                                                 *)
RetryAfterOnlyWithRateLimit ==
    /\ retryAfter /= JNull => errorType = JStr("rate_limit")
    /\ \A s \in Slots :
           (CompletedCycle(s) /\ retryAfter /= JNull) =>
               /\ GotResponse(s)
               /\ ResponseOf(s).status = 429
               /\ ResponseOf(s).retryAfterHeader /= JNull

\* A 429 whose Retry-After value is not a number has completed: retryAfter
\* is NaN, which is not null.
RateLimitWithUnreadableWaitCompleted ==
    \E s \in Slots :
        /\ CompletedCycle(s)
        /\ GotResponse(s)
        /\ ResponseOf(s).status = 429
        /\ retryAfter = JNaN
        /\ errorType = JStr("rate_limit")

(* C20: handleSubmit never writes the input value: prUrl is unchanged by   *)
(* dispatch and by every completion; and with the rendered controls as the *)
(* only triggers, in every loading state the input value equals the pr_url *)
(* of the outstanding request.                                             *)
InputEqualsOutstandingUrl ==
    /\ [][(\E s \in Slots : Starts(s) \/ Completes(s)) => prUrl' = prUrl]_vars
    /\ [](loading =>
              /\ \E s \in Slots : InFlight(s)
              /\ \A s \in Slots : InFlight(s) => inv[s].pr_url = prUrl)

\* The body of the response is being read while the input still holds the
\* submitted, non-empty value.
InputHeldWhileBodyParsed ==
    \E s \in Slots :
        /\ inv[s].pc = "jsonSettled"
        /\ loading
        /\ prUrl /= ""
        /\ inv[s].pr_url = prUrl

====
